---- MODULE Spec2Model ----
(***************************************************************************)
(* udl worker: an authenticated gateway in front of an R2 bucket.          *)
(*                                                                         *)
(* Two route shapes are modelled, both from the source:                    *)
(*   "flat"   - src/worker/src/index.ts  (fetch / handleRequest, a switch  *)
(*              on the first path segment, parameters in the query);       *)
(*   "nested" - src/unnamed/part_000     (a Hono app: /uploads/...,        *)
(*              /objects/:key).                                            *)
(* Both run against one backing store (the R2 bucket binding).             *)
(*                                                                         *)
(* A handler performs at most one state-changing store call, so a request  *)
(* is one atomic step: any interleaving of concurrent handlers is a        *)
(* sequence of such steps, ordered by their store call.                    *)
(***************************************************************************)
EXTENDS Integers, Sequences, FiniteSets, TLC

VARIABLES
    objects,    \* R2 bucket: key -> bytes of the object, <<>> when there is none
    sessions,   \* R2 bucket: uploadId -> the multipart upload session
    nextId,     \* R2 bucket: number of the next upload session it issues
    req,        \* the request handled last
    resp,       \* the response it was given
    calls,      \* the bucket operations invoked while handling it, in order
    sent,       \* history: uploadId -> partNumber -> bytes last acknowledged (200)
    committed,  \* history: key -> bytes the acknowledged requests put together
    acked       \* history: uploadId -> the key its start-upload (200) named and
                \* the (key, partNumber) pairs its upload-parts (200) named

vars == <<objects, sessions, nextId, req, resp, calls, sent, committed, acked>>

store == [objects |-> objects, sessions |-> sessions, nextId |-> nextId]

(***************************************************************************)
(* Bounds and input alphabets.                                             *)
(***************************************************************************)
\* Upload sessions the bucket issues in one run.
MaxUploads == 1

\* An absent header, query parameter or body (null / undefined in the code).
Null == "<null>"

\* env.AUTH_KEY, the configured secret.
AUTH_KEY == "secret"

Keys == {"a.txt", "b.txt"}

\* Part number domain of the bucket that the inputs below can reach.
PartNums == {1, 2}

\* Chunk bodies a client sends (bytes); a present body is not empty.
Chunks == {<<104>>, <<119, 33>>}

NoBytes == <<>>

UploadIds == {ToString(n) : n \in 1..MaxUploads}

NoParts == [p \in PartNums |-> NoBytes]

NoSession == [open |-> FALSE, key |-> Null, parts |-> NoParts]

(***************************************************************************)
(* The backing store (R2Bucket): the external collaborator, modelled from  *)
(* the contract of the specification (section 6).                          *)
(***************************************************************************)
\* The opaque token the bucket assigns to bytes: here the bytes, tagged.
ETag(bytes) == <<0>> \o bytes

\* createMultipartUpload(key) -> a new session {key, uploadId}.
createMultipartUpload(st, key) ==
    LET id == ToString(st.nextId)
    IN [threw |-> FALSE,
        uploadId |-> id,
        key |-> key,
        st |-> [st EXCEPT !.sessions[id] = [open |-> TRUE, key |-> key, parts |-> NoParts],
                          !.nextId = @ + 1]]

\* Whether (key, uploadId) names a session in progress.
SessionOpen(st, key, uploadId) ==
    /\ uploadId \in DOMAIN st.sessions
    /\ st.sessions[uploadId].open
    /\ st.sessions[uploadId].key = key

\* mpu.uploadPart(partNumber, bytes) on the handle of (key, uploadId):
\* the bucket fails (throws) for an unknown session or a part number below 1.
uploadPart(st, key, uploadId, partNumber, bytes) ==
    IF SessionOpen(st, key, uploadId) /\ partNumber \in PartNums
    THEN [threw |-> FALSE,
          partNumber |-> partNumber,
          etag |-> ETag(bytes),
          st |-> [st EXCEPT !.sessions[uploadId].parts[partNumber] = bytes]]
    ELSE [threw |-> TRUE, partNumber |-> partNumber, etag |-> NoBytes, st |-> st]

\* A manifest entry names an uploaded part of the session by its number and etag.
PartKnown(session, part) ==
    /\ part.partNumber.den = 1
    /\ part.partNumber.num \in PartNums
    /\ session.parts[part.partNumber.num] # NoBytes
    /\ part.etag.s = ETag(session.parts[part.partNumber.num])

Ascending(parts) ==
    \A i \in 1..Len(parts) - 1 :
        parts[i].partNumber.num < parts[i + 1].partNumber.num

RECURSIVE Assemble(_, _)
Assemble(session, parts) ==
    IF parts = <<>> THEN NoBytes
    ELSE session.parts[Head(parts).partNumber.num] \o Assemble(session, Tail(parts))

\* mpu.complete(parts): commits the object from the listed parts, in ascending
\* part number order, and ends the session; fails (throws) leaving everything as
\* it was for an unknown session or a manifest that does not match the uploads.
complete(st, key, uploadId, parts) ==
    IF /\ SessionOpen(st, key, uploadId)
       /\ \A i \in 1..Len(parts) : PartKnown(st.sessions[uploadId], parts[i])
       /\ Ascending(parts)
    THEN [threw |-> FALSE,
          st |-> [st EXCEPT !.objects[key] = Assemble(st.sessions[uploadId], parts),
                            !.sessions[uploadId] = NoSession]]
    ELSE [threw |-> TRUE, st |-> st]

\* get(key): the object with its bytes, or absent; head(key): the same
\* without the bytes.
get(st, key) == [found |-> st.objects[key] # NoBytes,
                 body |-> st.objects[key],
                 size |-> Len(st.objects[key]),
                 etag |-> ETag(st.objects[key])]

head(st, key) == [get(st, key) EXCEPT !.body = NoBytes]

\* delete(key): always succeeds.
delete(st, key) == [st EXCEPT !.objects[key] = NoBytes]

\* list({prefix, limit}): the entries whose key starts with the prefix (all of
\* them when there is none), in key order, at most limit of them.
KeyPrefixes == [k \in Keys |-> IF k = "a.txt" THEN {"a", "a.txt"} ELSE {"b", "b.txt"}]

KeyOrder == <<"a.txt", "b.txt">>

list(st, prefix, limit) ==
    LET hit(k) == /\ st.objects[k] # NoBytes
                  /\ (prefix = Null \/ prefix \in KeyPrefixes[k])
        entry(k) == [key |-> k, size |-> Len(st.objects[k]), etag |-> ETag(st.objects[k])]
        all == SelectSeq(KeyOrder, hit)
        n == IF Len(all) < limit THEN Len(all) ELSE limit
    IN [i \in 1..n |-> entry(all[i])]

(***************************************************************************)
(* Requests, responses and JSON values.                                    *)
(***************************************************************************)
Json(status, body) == [status |-> status, type |-> "json", body |-> body]

Text(status, text) == [status |-> status, type |-> "text", body |-> [text |-> text]]

Bytes(status, bytes) == [status |-> status, type |-> "bytes", body |-> [bytes |-> bytes]]

Empty(status) == [status |-> status, type |-> "empty", body |-> [empty |-> TRUE]]

NoResponse == [status |-> 0, type |-> "none", body |-> [empty |-> TRUE]]

\* What running a handler ends in: a returned Response, a thrown Response, a
\* thrown HTTPException, or any other thrown error; with the bucket calls made
\* and the bucket as they left it.
Returns(response, called, st) ==
    [kind |-> "return", resp |-> response, calls |-> called, st |-> st]

ThrowsResponse(response, called, st) ==
    [kind |-> "response", resp |-> response, calls |-> called, st |-> st]

ThrowsHTTPException(status, message, called, st) ==
    [kind |-> "HTTPException", resp |-> Text(status, message), calls |-> called, st |-> st]

ThrowsError(called, st) ==
    [kind |-> "error", resp |-> NoResponse, calls |-> called, st |-> st]

\* JSON values of a completion body.
JUndefined == [t |-> "undefined"]

JNull == [t |-> "null"]

JNumber(num, den) == [t |-> "number", num |-> num, den |-> den]

JString(s) == [t |-> "string", s |-> s]

JObject(partNumber, etag) == [t |-> "object", partNumber |-> partNumber, etag |-> etag]

JArray(items) == [t |-> "array", items |-> items]

\* Request bodies: none (request.body is null), raw bytes, or text that is
\* JSON (json holds its value) or not (malformed).
NoBody == [kind |-> "none", bytes |-> NoBytes, json |-> JUndefined]

RawBody(bytes) == [kind |-> "raw", bytes |-> bytes, json |-> JUndefined]

JsonBody(value) == [kind |-> "json", bytes |-> NoBytes, json |-> value]

MalformedBody == [kind |-> "malformed", bytes |-> NoBytes, json |-> JUndefined]

\* part.partNumber / part.etag: a property read throws on null, gives
\* undefined on a value that has no such property.
CanRead(value) == value.t # "null"

PartNumberOf(value) == IF value.t = "object" THEN value.partNumber ELSE JUndefined

EtagOf(value) == IF value.t = "object" THEN value.etag ELSE JUndefined

\* parts.every((part) => typeof part.partNumber === 'number' &&
\*                       typeof part.etag === 'string'),
\* entry by entry, stopping at the first that fails: "true", "false" or "throw".
RECURSIVE every(_)
every(items) ==
    IF items = <<>> THEN "true"
    ELSE IF ~CanRead(Head(items)) THEN "throw"
    ELSE IF /\ PartNumberOf(Head(items)).t = "number"
            /\ EtagOf(Head(items)).t = "string"
         THEN every(Tail(items))
         ELSE "false"

(***************************************************************************)
(* parseInt(value, 10) on the characters of a query parameter.             *)
(***************************************************************************)
\* The characters of the parameter values the model sends.
Chars ==
    [s \in {"1", "2", "0", "2x", "x", "-1", " 1"} |->
        CASE s = "1" -> <<"1">>
          [] s = "2" -> <<"2">>
          [] s = "0" -> <<"0">>
          [] s = "2x" -> <<"2", "x">>
          [] s = "x" -> <<"x">>
          [] s = "-1" -> <<"-", "1">>
          [] s = " 1" -> <<" ", "1">>]

DigitValue ==
    [c \in {"0", "1", "2", "3", "4", "5", "6", "7", "8", "9"} |->
        CASE c = "0" -> 0 [] c = "1" -> 1 [] c = "2" -> 2 [] c = "3" -> 3
          [] c = "4" -> 4 [] c = "5" -> 5 [] c = "6" -> 6 [] c = "7" -> 7
          [] c = "8" -> 8 [] c = "9" -> 9]

RECURSIVE SkipSpace(_)
SkipSpace(cs) == IF cs # <<>> /\ Head(cs) = " " THEN SkipSpace(Tail(cs)) ELSE cs

\* The value of the longest prefix of digits, after the digits read so far.
RECURSIVE ReadDigits(_, _)
ReadDigits(cs, acc) ==
    IF cs # <<>> /\ Head(cs) \in DOMAIN DigitValue
    THEN ReadDigits(Tail(cs), 10 * acc + DigitValue[Head(cs)])
    ELSE acc

\* parseInt: leading white space is skipped, a sign is read, then the digits up
\* to the first character that is none; NaN when no digit is there.
parseInt(cs) ==
    LET t == SkipSpace(cs)
        signed == t # <<>> /\ Head(t) \in {"-", "+"}
        sign == IF t # <<>> /\ Head(t) = "-" THEN -1 ELSE 1
        d == IF signed THEN Tail(t) ELSE t
    IN IF d # <<>> /\ Head(d) \in DOMAIN DigitValue
       THEN [nan |-> FALSE, n |-> sign * ReadDigits(d, 0)]
       ELSE [nan |-> TRUE, n |-> 0]

(***************************************************************************)
(* The bucket calls a handler makes, as the log records them.              *)
(***************************************************************************)
CallCreate(key) == [op |-> "createMultipartUpload", key |-> key]

CallResume(key, uploadId) == [op |-> "resumeMultipartUpload", key |-> key, uploadId |-> uploadId]

CallUploadPart(partNumber, bytes) == [op |-> "uploadPart", partNumber |-> partNumber, bytes |-> bytes]

CallComplete(parts) == [op |-> "complete", parts |-> parts]

CallGet(key) == [op |-> "get", key |-> key]

CallHead(key) == [op |-> "head", key |-> key]

CallList(prefix, limit) == [op |-> "list", prefix |-> prefix, limit |-> limit]

CallDelete(key) == [op |-> "delete", key |-> key]

(***************************************************************************)
(* The flat handler: src/worker/src/index.ts.                              *)
(***************************************************************************)
\* checkMethod: passes for the method given, else throws a 405 Response.
checkMethod(r, method) ==
    IF r.method # method
    THEN [ok |-> FALSE, thrown |-> Text(405, "Method not allowed")]
    ELSE [ok |-> TRUE, thrown |-> NoResponse]

\* getUrlParam: the query parameter, else throws a 400 Response.
getUrlParam(r, name) ==
    LET value == r.query[name]
    IN IF value = Null
       THEN [ok |-> FALSE, value |-> Null, n |-> 0,
             thrown |-> Text(400, "Invalid or missing " \o name)]
       ELSE [ok |-> TRUE, value |-> value, n |-> 0, thrown |-> NoResponse]

\* getUrlParamNumber: the query parameter through parseInt, else throws a 400.
getUrlParamNumber(r, name) ==
    LET value == getUrlParam(r, name)
        parsed == parseInt(Chars[value.value])
    IN IF ~value.ok THEN value
       ELSE IF parsed.nan
            THEN [ok |-> FALSE, value |-> value.value, n |-> 0,
                  thrown |-> Text(400, "Invalid " \o name)]
            ELSE [ok |-> TRUE, value |-> value.value, n |-> parsed.n, thrown |-> NoResponse]

\* case 'start-upload'
FlatStartUploadCase(r, st) ==
    LET m == checkMethod(r, "POST")
        key == getUrlParam(r, "key")
        mpu == createMultipartUpload(st, key.value)
    IN IF ~m.ok THEN ThrowsResponse(m.thrown, <<>>, st)
       ELSE IF ~key.ok THEN ThrowsResponse(key.thrown, <<>>, st)
       ELSE Returns(Json(200, [key |-> mpu.key, uploadId |-> mpu.uploadId]),
                    <<CallCreate(key.value)>>, mpu.st)

\* Variant of the 'upload-part' case without its check of request.body.
FlatUploadPartCase_NoBodyCheck(r, st) ==
    LET m == checkMethod(r, "POST")
        key == getUrlParam(r, "key")
        uploadId == getUrlParam(r, "uploadId")
        partNumber == getUrlParamNumber(r, "partNumber")
        called == <<CallResume(key.value, uploadId.value),
                    CallUploadPart(partNumber.n, r.body.bytes)>>
        part == uploadPart(st, key.value, uploadId.value, partNumber.n, r.body.bytes)
    IN IF ~m.ok THEN ThrowsResponse(m.thrown, <<>>, st)
       ELSE IF ~key.ok THEN ThrowsResponse(key.thrown, <<>>, st)
       ELSE IF ~uploadId.ok THEN ThrowsResponse(uploadId.thrown, <<>>, st)
       ELSE IF ~partNumber.ok THEN ThrowsResponse(partNumber.thrown, <<>>, st)
       ELSE IF part.threw THEN ThrowsError(called, st)
       ELSE Returns(Json(200, [partNumber |-> part.partNumber, etag |-> part.etag]),
                    called, part.st)

\* case 'upload-part'
FlatUploadPartCase(r, st) ==
    LET m == checkMethod(r, "POST")
        key == getUrlParam(r, "key")
        uploadId == getUrlParam(r, "uploadId")
        partNumber == getUrlParamNumber(r, "partNumber")
        called == <<CallResume(key.value, uploadId.value),
                    CallUploadPart(partNumber.n, r.body.bytes)>>
        part == uploadPart(st, key.value, uploadId.value, partNumber.n, r.body.bytes)
    IN IF ~m.ok THEN ThrowsResponse(m.thrown, <<>>, st)
       ELSE IF r.body.kind = "none"
            THEN ThrowsResponse(Json(400, [error |-> "No body"]), <<>>, st)
       ELSE IF ~key.ok THEN ThrowsResponse(key.thrown, <<>>, st)
       ELSE IF ~uploadId.ok THEN ThrowsResponse(uploadId.thrown, <<>>, st)
       ELSE IF ~partNumber.ok THEN ThrowsResponse(partNumber.thrown, <<>>, st)
       ELSE IF part.threw THEN ThrowsError(called, st)
       ELSE Returns(Json(200, [partNumber |-> part.partNumber, etag |-> part.etag]),
                    called, part.st)

\* Variant of the 'complete-upload' case that forwards only the first part.
FlatCompleteUploadCase_FirstPartOnly(r, st) ==
    LET m == checkMethod(r, "POST")
        key == getUrlParam(r, "key")
        uploadId == getUrlParam(r, "uploadId")
        parts == r.body.json
        first == <<Head(parts.items)>>
        called == <<CallResume(key.value, uploadId.value), CallComplete(first)>>
        done == complete(st, key.value, uploadId.value, first)
    IN IF ~m.ok THEN ThrowsResponse(m.thrown, <<>>, st)
       ELSE IF ~key.ok THEN ThrowsResponse(key.thrown, <<>>, st)
       ELSE IF ~uploadId.ok THEN ThrowsResponse(uploadId.thrown, <<>>, st)
       ELSE IF r.body.kind # "json" THEN ThrowsError(<<>>, st)
       ELSE IF parts.t # "array"
            THEN Returns(Json(400, [error |-> "Invalid parts"]), <<>>, st)
       ELSE IF every(parts.items) = "throw" THEN ThrowsError(<<>>, st)
       ELSE IF every(parts.items) = "false"
            THEN Returns(Json(400, [error |-> "Invalid parts"]), <<>>, st)
       ELSE IF Len(parts.items) = 0
            THEN Returns(Json(400, [error |-> "No parts"]), <<>>, st)
       ELSE IF done.threw THEN ThrowsError(called, st)
       ELSE Returns(Json(200, [key |-> key.value]), called, done.st)

\* Variant of the 'complete-upload' case without its check for an empty array.
FlatCompleteUploadCase_NoEmptyCheck(r, st) ==
    LET m == checkMethod(r, "POST")
        key == getUrlParam(r, "key")
        uploadId == getUrlParam(r, "uploadId")
        parts == r.body.json
        called == <<CallResume(key.value, uploadId.value), CallComplete(parts.items)>>
        done == complete(st, key.value, uploadId.value, parts.items)
    IN IF ~m.ok THEN ThrowsResponse(m.thrown, <<>>, st)
       ELSE IF ~key.ok THEN ThrowsResponse(key.thrown, <<>>, st)
       ELSE IF ~uploadId.ok THEN ThrowsResponse(uploadId.thrown, <<>>, st)
       ELSE IF r.body.kind # "json" THEN ThrowsError(<<>>, st)
       ELSE IF parts.t # "array"
            THEN Returns(Json(400, [error |-> "Invalid parts"]), <<>>, st)
       ELSE IF every(parts.items) = "throw" THEN ThrowsError(<<>>, st)
       ELSE IF every(parts.items) = "false"
            THEN Returns(Json(400, [error |-> "Invalid parts"]), <<>>, st)
       ELSE IF done.threw THEN ThrowsError(called, st)
       ELSE Returns(Json(200, [key |-> key.value]), called, done.st)

\* Variant of the 'complete-upload' case that looks at the length of the array
\* only after the bucket has completed the upload.
FlatCompleteUploadCase_LateEmptyCheck(r, st) ==
    LET m == checkMethod(r, "POST")
        key == getUrlParam(r, "key")
        uploadId == getUrlParam(r, "uploadId")
        parts == r.body.json
        called == <<CallResume(key.value, uploadId.value), CallComplete(parts.items)>>
        done == complete(st, key.value, uploadId.value, parts.items)
    IN IF ~m.ok THEN ThrowsResponse(m.thrown, <<>>, st)
       ELSE IF ~key.ok THEN ThrowsResponse(key.thrown, <<>>, st)
       ELSE IF ~uploadId.ok THEN ThrowsResponse(uploadId.thrown, <<>>, st)
       ELSE IF r.body.kind # "json" THEN ThrowsError(<<>>, st)
       ELSE IF parts.t # "array"
            THEN Returns(Json(400, [error |-> "Invalid parts"]), <<>>, st)
       ELSE IF every(parts.items) = "throw" THEN ThrowsError(<<>>, st)
       ELSE IF every(parts.items) = "false"
            THEN Returns(Json(400, [error |-> "Invalid parts"]), <<>>, st)
       ELSE IF done.threw THEN ThrowsError(called, st)
       ELSE IF Len(parts.items) = 0
            THEN Returns(Json(400, [error |-> "No parts"]), called, done.st)
       ELSE Returns(Json(200, [key |-> key.value]), called, done.st)

\* case 'complete-upload'
FlatCompleteUploadCase(r, st) ==
    LET m == checkMethod(r, "POST")
        key == getUrlParam(r, "key")
        uploadId == getUrlParam(r, "uploadId")
        parts == r.body.json
        called == <<CallResume(key.value, uploadId.value), CallComplete(parts.items)>>
        done == complete(st, key.value, uploadId.value, parts.items)
    IN IF ~m.ok THEN ThrowsResponse(m.thrown, <<>>, st)
       ELSE IF ~key.ok THEN ThrowsResponse(key.thrown, <<>>, st)
       ELSE IF ~uploadId.ok THEN ThrowsResponse(uploadId.thrown, <<>>, st)
       \* request.json() rejects when the body is no JSON text
       ELSE IF r.body.kind # "json" THEN ThrowsError(<<>>, st)
       ELSE IF parts.t # "array"
            THEN Returns(Json(400, [error |-> "Invalid parts"]), <<>>, st)
       ELSE IF every(parts.items) = "throw" THEN ThrowsError(<<>>, st)
       ELSE IF every(parts.items) = "false"
            THEN Returns(Json(400, [error |-> "Invalid parts"]), <<>>, st)
       ELSE IF Len(parts.items) = 0
            THEN Returns(Json(400, [error |-> "No parts"]), <<>>, st)
       ELSE IF done.threw THEN ThrowsError(called, st)
       ELSE Returns(Json(200, [key |-> key.value]), called, done.st)

\* Variant of the 'download' case without its check for a missing object.
FlatDownloadCase_NoNullCheck(r, st) ==
    LET m == checkMethod(r, "GET")
        key == getUrlParam(r, "key")
        object == get(st, key.value)
    IN IF ~m.ok THEN ThrowsResponse(m.thrown, <<>>, st)
       ELSE IF ~key.ok THEN ThrowsResponse(key.thrown, <<>>, st)
       ELSE Returns(Bytes(200, object.body), <<CallGet(key.value)>>, st)

\* case 'download'
FlatDownloadCase(r, st) ==
    LET m == checkMethod(r, "GET")
        key == getUrlParam(r, "key")
        object == get(st, key.value)
    IN IF ~m.ok THEN ThrowsResponse(m.thrown, <<>>, st)
       ELSE IF ~key.ok THEN ThrowsResponse(key.thrown, <<>>, st)
       ELSE IF ~object.found
            THEN Returns(Json(404, [error |-> "Not found"]), <<CallGet(key.value)>>, st)
       ELSE Returns(Bytes(200, object.body), <<CallGet(key.value)>>, st)

\* case 'stats'
FlatStatsCase(r, st) ==
    LET m == checkMethod(r, "GET")
        key == getUrlParam(r, "key")
        object == head(st, key.value)
    IN IF ~m.ok THEN ThrowsResponse(m.thrown, <<>>, st)
       ELSE IF ~key.ok THEN ThrowsResponse(key.thrown, <<>>, st)
       ELSE IF ~object.found
            THEN Returns(Json(404, [error |-> "Not found"]), <<CallHead(key.value)>>, st)
       ELSE Returns(Json(200, [size |-> object.size, etag |-> object.etag]),
                    <<CallHead(key.value)>>, st)

\* The authorization check that opens handleRequest.
Authorized(r) == r.auth # Null /\ r.auth = AUTH_KEY

\* url.pathname.split('/').at(1): the first path segment ("" for the root).
FirstPath(r) == IF Len(r.path) >= 1 THEN r.path[1] ELSE ""

\* Variant of handleRequest that checks the Authorization header only after
\* the case of the path has run.
handleRequest_LateAuth(r, st) ==
    LET out == CASE FirstPath(r) = "start-upload" -> FlatStartUploadCase(r, st)
                 [] FirstPath(r) = "upload-part" -> FlatUploadPartCase(r, st)
                 [] FirstPath(r) = "complete-upload" -> FlatCompleteUploadCase(r, st)
                 [] FirstPath(r) = "download" -> FlatDownloadCase(r, st)
                 [] FirstPath(r) = "stats" -> FlatStatsCase(r, st)
                 [] OTHER -> ThrowsResponse(Json(404, [error |-> "Not found"]), <<>>, st)
    IN IF ~Authorized(r)
       THEN ThrowsResponse(Json(401, [error |-> "Unauthorized"]), out.calls, out.st)
       ELSE out

handleRequest(r, st) ==
    IF ~Authorized(r)
    THEN ThrowsResponse(Json(401, [error |-> "Unauthorized"]), <<>>, st)
    ELSE CASE FirstPath(r) = "start-upload" -> FlatStartUploadCase(r, st)
           [] FirstPath(r) = "upload-part" -> FlatUploadPartCase(r, st)
           [] FirstPath(r) = "complete-upload" -> FlatCompleteUploadCase(r, st)
           [] FirstPath(r) = "download" -> FlatDownloadCase(r, st)
           [] FirstPath(r) = "stats" -> FlatStatsCase(r, st)
           [] OTHER -> ThrowsResponse(Json(404, [error |-> "Not found"]), <<>>, st)

\* Variant of fetch whose catch block throws on what is no Response.
fetch_Rethrows(r, st) == handleRequest(r, st)

\* fetch: the response handleRequest returns or throws; any other error is
\* logged and answered with a 500.
fetch(r, st) ==
    LET out == handleRequest(r, st)
    IN IF out.kind \in {"return", "response"} THEN out
       ELSE [out EXCEPT !.resp = Json(500, [error |-> "Internal server error"])]

(***************************************************************************)
(* The resource-nested Hono app: src/unnamed/part_000.                     *)
(***************************************************************************)
\* getQueryString: the query parameter, else throws HTTPException(400).
getQueryString(r, name) ==
    LET val == r.query[name]
    IN IF val = Null
       THEN [ok |-> FALSE, value |-> Null, n |-> 0, message |-> "Missing " \o name]
       ELSE [ok |-> TRUE, value |-> val, n |-> 0, message |-> ""]

\* getQueryNumber: the query parameter through parseInt, else HTTPException(400).
getQueryNumber(r, name) ==
    LET val == getQueryString(r, name)
        parsed == parseInt(Chars[val.value])
    IN IF ~val.ok THEN val
       ELSE IF parsed.nan
            THEN [ok |-> FALSE, value |-> val.value, n |-> 0, message |-> "Invalid " \o name]
            ELSE [ok |-> TRUE, value |-> val.value, n |-> parsed.n, message |-> ""]

\* getPathString: the path parameter of the matched route /objects/:key[/...],
\* else throws HTTPException(400).
getPathString(r, name) ==
    LET val == IF Len(r.path) >= 2 THEN r.path[2] ELSE Null
    IN IF val = Null
       THEN [ok |-> FALSE, value |-> Null, n |-> 0, message |-> "Missing " \o name]
       ELSE [ok |-> TRUE, value |-> val, n |-> 0, message |-> ""]

\* app.post('/uploads/create')
PostUploadsCreate(r, st) ==
    LET key == getQueryString(r, "key")
        mpu == createMultipartUpload(st, key.value)
    IN IF ~key.ok THEN ThrowsHTTPException(400, key.message, <<>>, st)
       ELSE Returns(Json(200, [key |-> mpu.key, uploadId |-> mpu.uploadId]),
                    <<CallCreate(key.value)>>, mpu.st)

\* app.post('/uploads/upload-part')
PostUploadsUploadPart(r, st) ==
    LET key == getQueryString(r, "key")
        uploadId == getQueryString(r, "uploadId")
        partNumber == getQueryNumber(r, "partNumber")
        called == <<CallResume(key.value, uploadId.value),
                    CallUploadPart(partNumber.n, r.body.bytes)>>
        part == uploadPart(st, key.value, uploadId.value, partNumber.n, r.body.bytes)
    IN IF r.body.kind = "none" THEN ThrowsHTTPException(400, "No body", <<>>, st)
       ELSE IF ~key.ok THEN ThrowsHTTPException(400, key.message, <<>>, st)
       ELSE IF ~uploadId.ok THEN ThrowsHTTPException(400, uploadId.message, <<>>, st)
       ELSE IF ~partNumber.ok THEN ThrowsHTTPException(400, partNumber.message, <<>>, st)
       ELSE IF part.threw THEN ThrowsError(called, st)
       ELSE Returns(Json(200, [partNumber |-> part.partNumber, etag |-> part.etag]),
                    called, part.st)

\* Variant of the '/uploads/complete' route that gives the upload up when the
\* bucket fails to complete it.
PostUploadsComplete_AbortsOnFailure(r, st) ==
    LET key == getQueryString(r, "key")
        uploadId == getQueryString(r, "uploadId")
        parts == r.body.json
        called == <<CallResume(key.value, uploadId.value), CallComplete(parts.items)>>
        done == complete(st, key.value, uploadId.value, parts.items)
        aborted == IF SessionOpen(st, key.value, uploadId.value)
                   THEN [st EXCEPT !.sessions[uploadId.value] = NoSession]
                   ELSE st
    IN IF ~key.ok THEN ThrowsHTTPException(400, key.message, <<>>, st)
       ELSE IF ~uploadId.ok THEN ThrowsHTTPException(400, uploadId.message, <<>>, st)
       ELSE IF r.body.kind # "json" THEN ThrowsError(<<>>, st)
       ELSE IF parts.t # "array" THEN ThrowsHTTPException(400, "Invalid parts", <<>>, st)
       ELSE IF every(parts.items) = "throw" THEN ThrowsError(<<>>, st)
       ELSE IF every(parts.items) = "false"
            THEN ThrowsHTTPException(400, "Invalid parts", <<>>, st)
       ELSE IF Len(parts.items) = 0 THEN ThrowsHTTPException(400, "No parts", <<>>, st)
       ELSE IF done.threw THEN ThrowsError(called, aborted)
       ELSE Returns(Json(200, [key |-> key.value]), called, done.st)

\* Variant of the '/uploads/complete' route without its check for an empty array.
PostUploadsComplete_NoEmptyCheck(r, st) ==
    LET key == getQueryString(r, "key")
        uploadId == getQueryString(r, "uploadId")
        parts == r.body.json
        called == <<CallResume(key.value, uploadId.value), CallComplete(parts.items)>>
        done == complete(st, key.value, uploadId.value, parts.items)
    IN IF ~key.ok THEN ThrowsHTTPException(400, key.message, <<>>, st)
       ELSE IF ~uploadId.ok THEN ThrowsHTTPException(400, uploadId.message, <<>>, st)
       ELSE IF r.body.kind # "json" THEN ThrowsError(<<>>, st)
       ELSE IF parts.t # "array" THEN ThrowsHTTPException(400, "Invalid parts", <<>>, st)
       ELSE IF every(parts.items) = "throw" THEN ThrowsError(<<>>, st)
       ELSE IF every(parts.items) = "false"
            THEN ThrowsHTTPException(400, "Invalid parts", <<>>, st)
       ELSE IF done.threw THEN ThrowsError(called, st)
       ELSE Returns(Json(200, [key |-> key.value]), called, done.st)

\* app.post('/uploads/complete')
PostUploadsComplete(r, st) ==
    LET key == getQueryString(r, "key")
        uploadId == getQueryString(r, "uploadId")
        parts == r.body.json
        called == <<CallResume(key.value, uploadId.value), CallComplete(parts.items)>>
        done == complete(st, key.value, uploadId.value, parts.items)
    IN IF ~key.ok THEN ThrowsHTTPException(400, key.message, <<>>, st)
       ELSE IF ~uploadId.ok THEN ThrowsHTTPException(400, uploadId.message, <<>>, st)
       \* c.req.json() rejects when the body is no JSON text
       ELSE IF r.body.kind # "json" THEN ThrowsError(<<>>, st)
       ELSE IF parts.t # "array" THEN ThrowsHTTPException(400, "Invalid parts", <<>>, st)
       ELSE IF every(parts.items) = "throw" THEN ThrowsError(<<>>, st)
       ELSE IF every(parts.items) = "false"
            THEN ThrowsHTTPException(400, "Invalid parts", <<>>, st)
       ELSE IF Len(parts.items) = 0 THEN ThrowsHTTPException(400, "No parts", <<>>, st)
       ELSE IF done.threw THEN ThrowsError(called, st)
       ELSE Returns(Json(200, [key |-> key.value]), called, done.st)

\* The limit the list handler passes to the bucket.
ListLimit == 1000

\* app.get('/objects')
GetObjects(r, st) ==
    LET prefix == r.query["prefix"]
        listed == list(st, prefix, ListLimit)
    IN Returns(Json(200, [objects |-> listed]), <<CallList(prefix, ListLimit)>>, st)

\* app.get('/objects/:key')
GetObjectsKey(r, st) ==
    LET key == getPathString(r, "key")
        object == get(st, key.value)
    IN IF ~key.ok THEN ThrowsHTTPException(400, key.message, <<>>, st)
       ELSE IF ~object.found
            THEN ThrowsHTTPException(404, "Not found", <<CallGet(key.value)>>, st)
       ELSE Returns(Bytes(200, object.body), <<CallGet(key.value)>>, st)

\* app.get('/objects/:key/stats')
GetObjectsKeyStats(r, st) ==
    LET key == getPathString(r, "key")
        object == head(st, key.value)
    IN IF ~key.ok THEN ThrowsHTTPException(400, key.message, <<>>, st)
       ELSE IF ~object.found
            THEN ThrowsHTTPException(404, "Not found", <<CallHead(key.value)>>, st)
       ELSE Returns(Json(200, [size |-> object.size, etag |-> object.etag]),
                    <<CallHead(key.value)>>, st)

\* app.delete('/objects/:key')
DeleteObjectsKey(r, st) ==
    LET key == getPathString(r, "key")
    IN IF ~key.ok THEN ThrowsHTTPException(400, key.message, <<>>, st)
       ELSE Returns(Empty(204), <<CallDelete(key.value)>>, delete(st, key.value))

\* The app's routes: the handler registered for the method and path, or the
\* framework's answer when there is none (404, plain text).
Route(r, st) ==
    CASE r.method = "POST" /\ r.path = <<"uploads", "create">> -> PostUploadsCreate(r, st)
      [] r.method = "POST" /\ r.path = <<"uploads", "upload-part">> ->
            PostUploadsUploadPart(r, st)
      [] r.method = "POST" /\ r.path = <<"uploads", "complete">> -> PostUploadsComplete(r, st)
      [] r.method = "GET" /\ r.path = <<"objects">> -> GetObjects(r, st)
      [] r.method = "GET" /\ Len(r.path) = 2 /\ r.path[1] = "objects" -> GetObjectsKey(r, st)
      [] r.method = "GET" /\ Len(r.path) = 3 /\ r.path[1] = "objects" /\ r.path[3] = "stats" ->
            GetObjectsKeyStats(r, st)
      [] r.method = "DELETE" /\ Len(r.path) = 2 /\ r.path[1] = "objects" ->
            DeleteObjectsKey(r, st)
      [] OTHER -> Returns(Text(404, "404 Not Found"), <<>>, st)

\* app.use: the middleware every request passes; it answers 500 when a binding
\* is missing and hands on to the route otherwise.
use(r, st) ==
    IF AUTH_KEY = Null
    THEN Returns(Json(500, [error |-> "Missing AUTH_KEY secret"]), <<>>, st)
    ELSE Route(r, st)

\* app.onError: an HTTPException becomes its status and {error: message}; any
\* other error is answered with a 500.
onError(out) ==
    IF out.kind = "HTTPException"
    THEN [out EXCEPT !.resp = Json(out.resp.status, [error |-> out.resp.body.text])]
    ELSE [out EXCEPT !.resp = Json(500, [error |-> "Internal Server Error"])]

\* The app's fetch: middleware, route, and onError for whatever they throw.
appFetch(r, st) ==
    LET out == use(r, st)
    IN IF out.kind = "return" THEN out ELSE onError(out)

(***************************************************************************)
(* Requests the clients send.                                              *)
(***************************************************************************)
Apps == {"flat", "nested"}

Auths == {Null, "wrong", AUTH_KEY}

Methods == {"GET", "POST", "DELETE"}

KeyParams == Keys \cup {Null}

UploadIdParams == UploadIds \cup {Null}

PartNumberParams == {Null, "1", "2", "0", "2x", "x"}

PrefixParams == {Null, "a"}

UploadBodies == {NoBody} \cup {RawBody(c) : c \in Chunks}

\* Manifest entries of the right shape: a part number and the etag of a chunk.
GoodEntry(n, c) == JObject(JNumber(n, 1), JString(ETag(c)))

\* Entries of the wrong shape: null, a number, a string part number, a number
\* etag, a fractional part number (3/2).
BadEntries ==
    {JNull,
     JNumber(1, 1),
     JObject(JString(<<120>>), JString(ETag(<<104>>))),
     JObject(JNumber(1, 1), JNumber(7, 1)),
     JObject(JNumber(3, 2), JString(ETag(<<104>>)))}

\* Manifests of the right shape: one part, two parts in ascending order, and
\* two parts out of order or repeated.
GoodManifests ==
    {JsonBody(JArray(<<GoodEntry(n, c)>>)) : n \in PartNums, c \in Chunks}
    \cup {JsonBody(JArray(<<GoodEntry(1, c), GoodEntry(2, d)>>)) : c \in Chunks, d \in Chunks}
    \cup {JsonBody(JArray(<<GoodEntry(2, <<119, 33>>), GoodEntry(1, <<104>>)>>)),
          JsonBody(JArray(<<GoodEntry(1, <<104>>), GoodEntry(1, <<104>>)>>))}

\* Bodies that are no manifest of the right shape.
BadManifests ==
    {NoBody, MalformedBody, JsonBody(JObject(JUndefined, JUndefined)), JsonBody(JArray(<<>>))}
    \cup {JsonBody(JArray(<<b>>)) : b \in BadEntries}
    \cup {JsonBody(JArray(<<GoodEntry(1, <<104>>), b>>)) : b \in BadEntries}
    \cup {JsonBody(JArray(<<b, JNull>>)) : b \in BadEntries}

NoQuery == [key |-> Null, uploadId |-> Null, partNumber |-> Null, prefix |-> Null]

Query(key, uploadId, partNumber) ==
    [key |-> key, uploadId |-> uploadId, partNumber |-> partNumber, prefix |-> Null]

Request(app, method, path, auth, query, body) ==
    [app |-> app, method |-> method, path |-> path, auth |-> auth,
     query |-> query, body |-> body]

\* No request is being handled.
NoRequest == Request("none", "GET", <<>>, Null, NoQuery, NoBody)

StartPath(app) == IF app = "flat" THEN <<"start-upload">> ELSE <<"uploads", "create">>

UploadPartPath(app) == IF app = "flat" THEN <<"upload-part">> ELSE <<"uploads", "upload-part">>

CompletePath(app) == IF app = "flat" THEN <<"complete-upload">> ELSE <<"uploads", "complete">>

DownloadPath(app, k) == IF app = "flat" THEN <<"download">> ELSE <<"objects", k>>

StatsPath(app, k) == IF app = "flat" THEN <<"stats">> ELSE <<"objects", k, "stats">>

StartRequests ==
    {Request(app, m, StartPath(app), a, Query(k, Null, Null), NoBody) :
        app \in Apps, m \in Methods, a \in Auths, k \in KeyParams}

\* upload-part: every well-formed request under every credential; for the
\* authorized POST every combination of a missing key or uploadId with every
\* partNumber value and body; the other methods on some of them.
UploadPartRequests ==
    {Request(app, "POST", UploadPartPath(app), a, Query(k, u, p), RawBody(c)) :
        app \in Apps, a \in Auths, k \in Keys, u \in UploadIds, p \in {"1", "2"}, c \in Chunks}
    \cup {Request(app, "POST", UploadPartPath(app), AUTH_KEY, Query(k, u, p), b) :
        app \in Apps, k \in {Null, "a.txt"}, u \in {Null, "1"}, p \in PartNumberParams,
        b \in UploadBodies}
    \cup {Request(app, m, UploadPartPath(app), a, Query(k, "1", "1"), b) :
        app \in Apps, m \in {"GET", "DELETE"}, a \in Auths, k \in {Null, "a.txt"},
        b \in {NoBody, RawBody(<<104>>)}}

\* complete-upload: every manifest of the right shape for every session under
\* a missing and the right credential; for the authorized POST every body of
\* the wrong shape with a missing key or uploadId; the other methods and the
\* wrong credential on some of them.
CompleteRequests ==
    {Request(app, "POST", CompletePath(app), a, Query(k, u, Null), b) :
        app \in Apps, a \in {Null, AUTH_KEY}, k \in Keys, u \in UploadIds, b \in GoodManifests}
    \cup {Request(app, "POST", CompletePath(app), AUTH_KEY, Query(k, u, Null), b) :
        app \in Apps, k \in {Null, "a.txt"}, u \in {Null, "1"}, b \in BadManifests}
    \cup {Request(app, m, CompletePath(app), a, Query(k, "1", Null), b) :
        app \in Apps, m \in Methods, a \in Auths, k \in {Null, "a.txt"},
        b \in {JsonBody(JArray(<<>>)), JsonBody(JArray(<<GoodEntry(1, <<104>>)>>))}}

\* download and stats: the flat shape takes the key in the query (it may be
\* missing), the nested one in the path.
DownloadRequests ==
    {Request("flat", m, <<"download">>, a, Query(k, Null, Null), NoBody) :
        m \in {"GET", "POST"}, a \in Auths, k \in KeyParams}
    \cup {Request("nested", m, <<"objects", k>>, a, NoQuery, NoBody) :
        m \in {"GET", "POST"}, a \in Auths, k \in Keys}

StatsRequests ==
    {Request("flat", m, <<"stats">>, a, Query(k, Null, Null), NoBody) :
        m \in {"GET", "POST"}, a \in Auths, k \in KeyParams}
    \cup {Request("nested", m, <<"objects", k, "stats">>, a, NoQuery, NoBody) :
        m \in {"GET", "POST"}, a \in Auths, k \in Keys}

ListRequests ==
    {Request(app, m, <<"objects">>, a, [NoQuery EXCEPT !.prefix = p], NoBody) :
        app \in Apps, m \in {"GET", "POST"}, a \in Auths, p \in PrefixParams}

DeleteRequests ==
    {Request(app, "DELETE", <<"objects", k>>, a, NoQuery, NoBody) :
        app \in Apps, a \in Auths, k \in Keys}

\* Paths neither shape routes: the root, and each shape's paths sent to the other.
UnroutedRequests ==
    {Request(app, m, <<>>, a, NoQuery, NoBody) : app \in Apps, m \in Methods, a \in Auths}
    \cup {Request("nested", m, <<"download">>, a, Query("a.txt", Null, Null), NoBody) :
            m \in {"GET"}, a \in Auths}
    \cup {Request("flat", m, <<"uploads", "create">>, a, Query("a.txt", Null, Null), NoBody) :
            m \in {"POST"}, a \in Auths}

\* Which operation a request asks for, by its route shape.
IsStart(r) == r.app \in Apps /\ r.path = StartPath(r.app)

IsUploadPart(r) == r.app \in Apps /\ r.path = UploadPartPath(r.app)

IsComplete(r) == r.app \in Apps /\ r.path = CompletePath(r.app)

IsDownload(r) ==
    \/ r.app = "flat" /\ r.path = <<"download">>
    \/ r.app = "nested" /\ Len(r.path) = 2 /\ r.path[1] = "objects" /\ r.method = "GET"

IsStats(r) ==
    \/ r.app = "flat" /\ r.path = <<"stats">>
    \/ r.app = "nested" /\ Len(r.path) = 3 /\ r.path[1] = "objects" /\ r.path[3] = "stats"

IsDelete(r) ==
    r.app \in Apps /\ Len(r.path) = 2 /\ r.path[1] = "objects" /\ r.method = "DELETE"

\* The key a request names: in the path (/objects/:key) or in the query.
KeyOf(r) == IF Len(r.path) >= 2 /\ r.path[1] = "objects" THEN r.path[2] ELSE r.query.key

(***************************************************************************)
(* History of what the responses acknowledged, from requests and responses *)
(* alone (never read from the bucket).                                     *)
(***************************************************************************)
\* The elements of a set of numbers, in ascending order.
RECURSIVE SortedSeq(_)
SortedSeq(S) ==
    IF S = {} THEN <<>>
    ELSE LET m == CHOOSE x \in S : \A y \in S : x <= y
         IN <<m>> \o SortedSeq(S \ {m})

RECURSIVE Concat(_, _)
Concat(parts, ns) ==
    IF ns = <<>> THEN NoBytes ELSE parts[Head(ns)] \o Concat(parts, Tail(ns))

\* The part numbers a manifest lists.
Listed(items) == {n \in PartNums : \E i \in 1..Len(items) : items[i].partNumber = JNumber(n, 1)}

NextSent(r, response) ==
    IF IsUploadPart(r) /\ response.status = 200
    THEN [sent EXCEPT ![r.query.uploadId][response.body.partNumber] = r.body.bytes]
    ELSE IF IsComplete(r) /\ response.status = 200
    THEN [sent EXCEPT ![r.query.uploadId] = NoParts]
    ELSE sent

NextCommitted(r, response) ==
    IF IsComplete(r) /\ response.status = 200
    THEN [committed EXCEPT ![r.query.key] =
            Concat(sent[r.query.uploadId], SortedSeq(Listed(r.body.json.items)))]
    ELSE IF IsDelete(r) /\ response.status = 204
    THEN [committed EXCEPT ![KeyOf(r)] = NoBytes]
    ELSE committed

\* Nothing acknowledged for an upload: not started, or completed.
NoAck == [key |-> Null, parts |-> {}]

NextAcked(r, response) ==
    IF IsStart(r) /\ response.status = 200
    THEN [acked EXCEPT ![response.body.uploadId] = [key |-> r.query.key, parts |-> {}]]
    ELSE IF IsUploadPart(r) /\ response.status = 200
    THEN [acked EXCEPT ![r.query.uploadId].parts =
            @ \cup {<<r.query.key, response.body.partNumber>>}]
    ELSE IF IsComplete(r) /\ response.status = 200
    THEN [acked EXCEPT ![r.query.uploadId] = NoAck]
    ELSE acked

(***************************************************************************)
(* The state machine.  A request is handled in one step by the app it is   *)
(* sent to; the step after hands the response over, and nothing of the     *)
(* request is kept (the handlers hold no state of their own).              *)
(***************************************************************************)
Init ==
    /\ objects = [k \in Keys |-> NoBytes]
    /\ sessions = [u \in UploadIds |-> NoSession]
    /\ nextId = 1
    /\ req = NoRequest
    /\ resp = NoResponse
    /\ calls = <<>>
    /\ sent = [u \in UploadIds |-> NoParts]
    /\ committed = [k \in Keys |-> NoBytes]
    /\ acked = [u \in UploadIds |-> NoAck]

Idle == req = NoRequest

\* The entry point of the app the request is sent to.
Handle(r, st) == IF r.app = "flat" THEN fetch(r, st) ELSE appFetch(r, st)

Serve(r) ==
    /\ Idle
    /\ IsStart(r) => nextId <= MaxUploads
    /\ \E out \in {Handle(r, store)} :
        /\ req' = r
        /\ resp' = out.resp
        /\ calls' = out.calls
        /\ objects' = out.st.objects
        /\ sessions' = out.st.sessions
        /\ nextId' = out.st.nextId
        /\ sent' = NextSent(r, out.resp)
        /\ committed' = NextCommitted(r, out.resp)
        /\ acked' = NextAcked(r, out.resp)

StartUpload == \E r \in StartRequests : Serve(r)

UploadPart == \E r \in UploadPartRequests : Serve(r)

CompleteUpload == \E r \in CompleteRequests : Serve(r)

Download == \E r \in DownloadRequests : Serve(r)

Stats == \E r \in StatsRequests : Serve(r)

List == \E r \in ListRequests : Serve(r)

Delete == \E r \in DeleteRequests : Serve(r)

Unrouted == \E r \in UnroutedRequests : Serve(r)

\* The response is handed over; the worker is ready for the next request.
Finish ==
    /\ ~Idle
    /\ req' = NoRequest
    /\ resp' = NoResponse
    /\ calls' = <<>>
    /\ UNCHANGED <<objects, sessions, nextId, sent, committed, acked>>

Next ==
    \/ StartUpload
    \/ UploadPart
    \/ CompleteUpload
    \/ Download
    \/ Stats
    \/ List
    \/ Delete
    \/ Unrouted
    \/ Finish

Spec == Init /\ [][Next]_vars

(***************************************************************************)
(* What the claims speak of.                                               *)
(***************************************************************************)
\* A request has been handled and its response is at hand.
Served == ~Idle

\* The request carried the configured secret.
Authenticated == req.auth = AUTH_KEY

Mutating == {"createMultipartUpload", "uploadPart", "complete", "delete"}

Invoked(ops) == \E i \in 1..Len(calls) : calls[i].op \in ops

IsErrorBody(response) == response.type = "json" /\ DOMAIN response.body = {"error"}

ErrorResponse(status, message) == Json(status, [error |-> message])

(***************************************************************************)
(* C1: every request whose Authorization header is absent or differs from *)
(* AUTH_KEY is answered 401 {"error": "Unauthorized"}, whatever its method *)
(* and path, in both route shapes.                                         *)
(***************************************************************************)
C1_UnauthorizedIs401 ==
    (Served /\ ~Authenticated) => resp = ErrorResponse(401, "Unauthorized")

(***************************************************************************)
(* C2: a state-mutating bucket operation (createMultipartUpload,           *)
(* uploadPart, complete, delete) is invoked while handling a request only  *)
(* if the request carried the configured secret.                           *)
(***************************************************************************)
C2_MutationNeedsAuth ==
    (Served /\ Invoked(Mutating)) => Authenticated

(***************************************************************************)
(* C3: after a well-formed start-upload, upload-part(s), complete-upload   *)
(* in which each call succeeded, a download of the key returns the         *)
(* uploaded part bytes concatenated in ascending partNumber order, and     *)
(* stats reports their total length.  committed holds those bytes as the   *)
(* acknowledged requests determine them.                                   *)
(***************************************************************************)
\* A download or stats request that names a key, with the right method and
\* the credential its route shape asks for.
WellFormedRead ==
    /\ IsDownload(req) \/ IsStats(req)
    /\ req.method = "GET"
    /\ KeyOf(req) \in Keys
    /\ Authenticated

C3_RoundTrip ==
    Served =>
        /\ (IsDownload(req) /\ resp.status = 200) =>
                resp = Bytes(200, committed[KeyOf(req)])
        /\ (IsStats(req) /\ resp.status = 200) =>
                resp.body.size = Len(committed[KeyOf(req)])
        /\ (WellFormedRead /\ committed[KeyOf(req)] # NoBytes) => resp.status = 200

\* A flat download that returns two parts put together: "h" then "w!".
C3_Witness ==
    /\ Served
    /\ req.app = "flat"
    /\ IsDownload(req)
    /\ Authenticated
    /\ resp = Bytes(200, <<104, 119, 33>>)
    /\ committed[KeyOf(req)] = <<104, 119, 33>>

(***************************************************************************)
(* C4: an authenticated complete-upload whose body is the empty array is   *)
(* answered 400 ("No parts" when key and uploadId are there), complete is  *)
(* not invoked, and the sessions and objects are left as they were.        *)
(***************************************************************************)
C4_Case ==
    /\ Served
    /\ Authenticated
    /\ IsComplete(req)
    /\ req.method = "POST"
    /\ req.body = JsonBody(JArray(<<>>))

C4_EmptyPartsRejected ==
    [][C4_Case' =>
        /\ resp'.status = 400
        /\ (req'.query.key # Null /\ req'.query.uploadId # Null) =>
                resp' = ErrorResponse(400, "No parts")
        /\ ~Invoked({"complete"})'
        /\ sessions' = sessions
        /\ objects' = objects]_vars

\* The empty manifest sent for a session in progress that holds a part.
C4_Witness ==
    /\ C4_Case
    /\ req.query.uploadId \in UploadIds
    /\ sessions[req.query.uploadId].open
    /\ sessions[req.query.uploadId].key = req.query.key
    /\ sessions[req.query.uploadId].parts # NoParts
    /\ resp = ErrorResponse(400, "No parts")

(***************************************************************************)
(* C5: an authenticated upload-part with no request body is answered 400   *)
(* whatever its query parameters, and no bucket operation is invoked.      *)
(***************************************************************************)
C5_Case ==
    /\ Served
    /\ Authenticated
    /\ IsUploadPart(req)
    /\ req.method = "POST"
    /\ req.body = NoBody

C5_NoBodyRejected == C5_Case => (resp.status = 400 /\ calls = <<>>)

\* No body, with the parameters of a session in progress.
C5_Witness ==
    /\ C5_Case
    /\ req.query.uploadId \in UploadIds
    /\ sessions[req.query.uploadId].open
    /\ sessions[req.query.uploadId].key = req.query.key
    /\ req.query.partNumber = "1"
    /\ resp.status = 400

(***************************************************************************)
(* C6: an authenticated complete-upload with key and uploadId present      *)
(* whose body is not a sequence of objects each holding an integer         *)
(* partNumber and a string etag is answered 400 {"error": "Invalid parts"} *)
(* and complete is not invoked.                                            *)
(***************************************************************************)
WellShapedEntry(e) ==
    /\ e.t = "object"
    /\ e.partNumber.t = "number"
    /\ e.partNumber.den = 1
    /\ e.etag.t = "string"

WellShaped(body) ==
    /\ body.kind = "json"
    /\ body.json.t = "array"
    /\ \A i \in 1..Len(body.json.items) : WellShapedEntry(body.json.items[i])

C6_InvalidPartsRejected ==
    (/\ Served
     /\ Authenticated
     /\ IsComplete(req)
     /\ req.method = "POST"
     /\ req.query.key # Null
     /\ req.query.uploadId # Null
     /\ ~WellShaped(req.body))
    => (resp = ErrorResponse(400, "Invalid parts") /\ ~Invoked({"complete"}))

(***************************************************************************)
(* C7: an authenticated request with the right method that omits a         *)
(* required string field (key; uploadId on upload-part and                 *)
(* complete-upload) is answered 400 {"error": "Missing <field>"}, naming   *)
(* the first missing field.                                                *)
(***************************************************************************)
\* The query fields the route reads, in the order it reads them.
RequiredFields(r) ==
    IF IsUploadPart(r) \/ IsComplete(r) THEN <<"key", "uploadId">>
    ELSE IF IsStart(r) \/ (r.app = "flat" /\ (IsDownload(r) \/ IsStats(r))) THEN <<"key">>
    ELSE <<>>

RouteMethod(r) == IF IsDownload(r) \/ IsStats(r) THEN "GET" ELSE "POST"

Missing(r) == SelectSeq(RequiredFields(r), LAMBDA f : r.query[f] = Null)

C7_MissingFieldNamed ==
    (/\ Served
     /\ Authenticated
     /\ req.method = RouteMethod(req)
     /\ IsUploadPart(req) => req.body # NoBody
     /\ Missing(req) # <<>>)
    => resp = ErrorResponse(400, "Missing " \o Head(Missing(req)))

(***************************************************************************)
(* C8: every response that is not 2xx has a JSON body {"error": message}   *)
(* and a status among 400, 401, 404, 405, 500.                             *)
(***************************************************************************)
C8_ErrorsAreJson ==
    (Served /\ resp.status \notin 200..299) =>
        (IsErrorBody(resp) /\ resp.status \in {400, 401, 404, 405, 500})

(***************************************************************************)
(* C9: an authenticated download or stats of a key that has no object in   *)
(* the bucket is answered 404; of a key that has one, 200 with the         *)
(* object's bytes (download) or its {size, etag} (stats).                  *)
(***************************************************************************)
C9_ReadFollowsStore ==
    (Served /\ WellFormedRead) =>
        LET k == KeyOf(req)
        IN IF objects[k] = NoBytes THEN resp.status = 404
           ELSE IF IsDownload(req) THEN resp = Bytes(200, objects[k])
           ELSE resp = Json(200, [size |-> Len(objects[k]), etag |-> ETag(objects[k])])

\* stats of a key whose object was completed and then deleted.
C9_Witness ==
    /\ Served
    /\ WellFormedRead
    /\ IsStats(req)
    /\ req.app = "flat"
    /\ nextId = 2
    /\ sessions["1"] = NoSession
    /\ objects[KeyOf(req)] = NoBytes
    /\ resp.status = 404

(***************************************************************************)
(* C10: an authenticated DELETE of a key is answered 204 with no body      *)
(* whether or not the object exists, in both route shapes, and the key     *)
(* has no object afterwards.                                               *)
(***************************************************************************)
C10_DeleteSucceeds ==
    (Served /\ Authenticated /\ IsDelete(req)) =>
        (resp = Empty(204) /\ objects[KeyOf(req)] = NoBytes)

(***************************************************************************)
(* C11: on an authenticated upload-part with a body, key and uploadId, a   *)
(* partNumber that is absent or is not a decimal integer numeral (such as  *)
(* "2x") is answered 400 and no bucket operation is invoked; otherwise the *)
(* number passed to uploadPart is the integer the numeral denotes, and it  *)
(* is positive.                                                            *)
(***************************************************************************)
\* A decimal integer numeral: digits and nothing else.
IsNumeral(s) ==
    /\ s \in DOMAIN Chars
    /\ \A i \in 1..Len(Chars[s]) : Chars[s][i] \in DOMAIN DigitValue

Denoted(s) == ReadDigits(Chars[s], 0)

C11_Case ==
    /\ Served
    /\ Authenticated
    /\ IsUploadPart(req)
    /\ req.method = "POST"
    /\ req.body # NoBody
    /\ req.query.key # Null
    /\ req.query.uploadId # Null

C11_PartNumberIsInteger ==
    C11_Case =>
        IF ~IsNumeral(req.query.partNumber)
        THEN resp.status = 400 /\ calls = <<>>
        ELSE /\ Denoted(req.query.partNumber) > 0
             /\ \E i \in 1..Len(calls) :
                    /\ calls[i].op = "uploadPart"
                    /\ calls[i].partNumber = Denoted(req.query.partNumber)

(***************************************************************************)
(* C12: an authenticated request whose path names no route is answered     *)
(* 404; one whose path names a route (start-upload, upload-part,           *)
(* complete-upload: POST; download, stats, list: GET) with another method  *)
(* is answered 405, whatever its parameters and body; in both cases no     *)
(* bucket operation is invoked.                                            *)
(***************************************************************************)
\* The method declared for the route the path names, "none" when it names none.
DeclaredMethod(r) ==
    IF IsStart(r) \/ IsUploadPart(r) \/ IsComplete(r) THEN "POST"
    ELSE IF r.app = "flat" /\ r.path \in {<<"download">>, <<"stats">>} THEN "GET"
    ELSE IF r.app = "nested" /\ Len(r.path) = 2 /\ r.path[1] = "objects" THEN "GET"
    ELSE IF r.app = "nested" /\ Len(r.path) = 3 /\ r.path[1] = "objects"
                             /\ r.path[3] = "stats" THEN "GET"
    ELSE IF r.path = <<"objects">> THEN "GET"
    ELSE "none"

C12_RoutingErrors ==
    (Served /\ Authenticated /\ ~IsDelete(req)) =>
        /\ DeclaredMethod(req) = "none" => (resp.status = 404 /\ calls = <<>>)
        /\ DeclaredMethod(req) \notin {"none", req.method} =>
                (resp.status = 405 /\ calls = <<>>)

(***************************************************************************)
(* C13: an authenticated, well-formed upload-part or complete-upload whose *)
(* (key, uploadId) pair the bucket does not recognise (never issued,       *)
(* issued for another key, or completed already) is answered 404 or 400,   *)
(* never 2xx.                                                              *)
(***************************************************************************)
\* The request handled is a well-formed upload-part or complete-upload.
WellFormedSessionCall ==
    /\ Served
    /\ Authenticated
    /\ req.method = "POST"
    /\ req.query.key # Null
    /\ req.query.uploadId # Null
    /\ \/ IsUploadPart(req) /\ req.body.kind = "raw" /\ req.query.partNumber \in {"1", "2"}
       \/ IsComplete(req) /\ WellShaped(req.body) /\ req.body.json.items # <<>>

C13_UnknownSessionSurfaced ==
    [][(WellFormedSessionCall' /\ ~SessionOpen(store, req'.query.key, req'.query.uploadId))
        => resp'.status \in {400, 404}]_vars

(***************************************************************************)
(* C14: every request handled is given a response; whenever handling       *)
(* raises a failure that is no error response of the handler's own (a      *)
(* bucket call that throws, a body that cannot be read), the response is   *)
(* 500 with the entry point's fixed body, the same for every failure.      *)
(***************************************************************************)
\* The body the entry point of each shape gives an unexpected failure.
GenericError(app) ==
    ErrorResponse(500, IF app = "flat" THEN "Internal server error"
                                       ELSE "Internal Server Error")

\* Handling r in bucket state st raises an error that is neither a Response nor
\* an HTTPException.
Raised(r, st) == (IF r.app = "flat" THEN handleRequest(r, st) ELSE use(r, st)).kind = "error"

\* The bucket, in state st, fails the uploadPart or complete call logged.
BucketThrew(r, st, called) ==
    \E i \in 1..Len(called) :
        \/ /\ called[i].op = "uploadPart"
           /\ uploadPart(st, r.query.key, r.query.uploadId,
                         called[i].partNumber, called[i].bytes).threw
        \/ /\ called[i].op = "complete"
           /\ complete(st, r.query.key, r.query.uploadId, called[i].parts).threw

C14_FailuresBecome500 ==
    [][Served' =>
        /\ resp' # NoResponse
        /\ resp'.status \in {200, 204, 400, 401, 404, 405, 500}
        /\ (Raised(req', store) \/ BucketThrew(req', store, calls')) =>
                resp' = GenericError(req'.app)
        /\ resp'.status = 500 => resp' = GenericError(req'.app)]_vars

\* complete fails in the bucket for a session in progress (the manifest does
\* not match its parts), and the nested app answers its generic 500.
C14_Witness ==
    /\ Served
    /\ req.app = "nested"
    /\ IsComplete(req)
    /\ Invoked({"complete"})
    /\ SessionOpen(store, req.query.key, req.query.uploadId)
    /\ resp = GenericError("nested")

(***************************************************************************)
(* C15: whenever a request, on any route of either shape, is answered 400, *)
(* no bucket operation at all was invoked while handling it, and the       *)
(* bucket's objects and upload sessions are what they were before it.      *)
(***************************************************************************)
C15_ValidationBeforeStore ==
    [][(Served' /\ resp'.status = 400) =>
        /\ calls' = <<>>
        /\ objects' = objects
        /\ sessions' = sessions
        /\ nextId' = nextId]_vars

\* A manifest of the wrong shape, sent for a session in progress that holds a
\* part, is turned down with 400.
C15_Witness ==
    /\ Served
    /\ IsComplete(req)
    /\ resp = ErrorResponse(400, "Invalid parts")
    /\ calls = <<>>
    /\ SessionOpen(store, req.query.key, req.query.uploadId)
    /\ sessions[req.query.uploadId].parts # NoParts

(***************************************************************************)
(* C16: whenever a complete-upload for (key, uploadId) is answered with a  *)
(* status that is not 2xx, the bucket's objects and sessions are what they *)
(* were before it, so that a session in progress keeps its parts and a     *)
(* complete-upload listing them is then answered 200; and no request       *)
(* invokes complete more than once.                                        *)
(***************************************************************************)
\* The manifest that lists every part a session holds, in ascending order.
ManifestOf(session) ==
    LET ns == SortedSeq({n \in PartNums : session.parts[n] # NoBytes})
    IN JsonBody(JArray([i \in 1..Len(ns) |-> GoodEntry(ns[i], session.parts[ns[i]])]))

\* The complete-upload a client sends next for the session of request r.
Retry(r, session) ==
    Request(r.app, "POST", CompletePath(r.app), AUTH_KEY,
            Query(r.query.key, r.query.uploadId, Null), ManifestOf(session))

Completions(called) == {i \in 1..Len(called) : called[i].op = "complete"}

C16_CompleteAllOrNothing ==
    [][(Served' /\ IsComplete(req')) =>
        /\ Cardinality(Completions(calls')) <= 1
        /\ resp'.status \notin 200..299 =>
            /\ objects' = objects
            /\ sessions' = sessions
            /\ (/\ SessionOpen(store, req'.query.key, req'.query.uploadId)
                /\ sessions[req'.query.uploadId].parts # NoParts) =>
                    Handle(Retry(req', sessions'[req'.query.uploadId]),
                           [objects |-> objects', sessions |-> sessions',
                            nextId |-> nextId']).resp.status = 200]_vars

\* The bucket turns down a manifest for a session in progress that holds a
\* part: the flat handler answers 500 and the session is as it was.
C16_Witness ==
    /\ Served
    /\ req.app = "flat"
    /\ IsComplete(req)
    /\ Invoked({"complete"})
    /\ resp.status = 500
    /\ SessionOpen(store, req.query.key, req.query.uploadId)
    /\ sessions[req.query.uploadId].parts # NoParts

(***************************************************************************)
(* C17: a 200 answer to complete-upload for (key, uploadId) comes after a  *)
(* 200 start-upload for key that returned uploadId and after at least one  *)
(* 200 upload-part for (key, uploadId), with no 200 complete-upload of     *)
(* that upload in between; and every partNumber the accepted manifest      *)
(* lists was acknowledged by a 200 upload-part of that session.            *)
(***************************************************************************)
C17_Case == Served /\ IsComplete(req) /\ resp.status = 200

C17_LifecycleInOrder ==
    [][C17_Case' =>
        LET u == req'.query.uploadId
            k == req'.query.key
            items == req'.body.json.items
        IN /\ u \in UploadIds
           /\ acked[u].key = k
           /\ \E n \in PartNums : <<k, n>> \in acked[u].parts
           /\ \A i \in 1..Len(items) :
                /\ items[i].t = "object"
                /\ items[i].partNumber.t = "number"
                /\ items[i].partNumber.den = 1
                /\ <<k, items[i].partNumber.num>> \in acked[u].parts]_vars

\* The nested app completes an upload of two parts.
C17_Witness ==
    /\ C17_Case
    /\ req.app = "nested"
    /\ Len(req.body.json.items) = 2
    /\ objects[req.query.key] = <<104, 119, 33>>

(***************************************************************************)
(* C19: a request to one of the flat handler's five routes and the         *)
(* corresponding request to the nested app, with the same Authorization    *)
(* header, method, parameters and body and against the same bucket state,  *)
(* are given the same status and the same JSON body and make the same      *)
(* bucket calls.                                                           *)
(***************************************************************************)
\* The flat routes that have a corresponding nested request: download and
\* stats carry their key in the path there, so they need one.
HasTwin(r) ==
    /\ r.app = "flat"
    /\ \/ IsStart(r) \/ IsUploadPart(r) \/ IsComplete(r)
       \/ (IsDownload(r) \/ IsStats(r)) /\ r.query.key # Null

Twin(r) ==
    IF IsDownload(r)
    THEN Request("nested", r.method, DownloadPath("nested", r.query.key), r.auth, NoQuery, r.body)
    ELSE IF IsStats(r)
    THEN Request("nested", r.method, StatsPath("nested", r.query.key), r.auth, NoQuery, r.body)
    ELSE [r EXCEPT !.app = "nested",
                   !.path = IF IsStart(r) THEN StartPath("nested")
                            ELSE IF IsUploadPart(r) THEN UploadPartPath("nested")
                            ELSE CompletePath("nested")]

\* Two outcomes agree in status, body and bucket calls (the bytes of a
\* download count as its body).
SameOutcome(response, called, other) ==
    /\ other.resp.status = response.status
    /\ other.resp.type = response.type
    /\ other.resp.body = response.body
    /\ other.calls = called

C19_ShapesEquivalent ==
    [][(Served' /\ HasTwin(req')) =>
        SameOutcome(resp', calls', appFetch(Twin(req'), store))]_vars

(***************************************************************************)
(* C20: handling a download, stats or list request, or any request that is *)
(* answered 401, 404 or 405, invokes none of createMultipartUpload,        *)
(* uploadPart, complete and delete, and leaves the bucket's objects and    *)
(* upload sessions with their parts as they were.                          *)
(***************************************************************************)
IsList(r) == r.app \in Apps /\ r.path = <<"objects">>

C20_Case ==
    /\ Served
    /\ \/ IsDownload(req) \/ IsStats(req) \/ IsList(req)
       \/ resp.status \in {401, 404, 405}

C20_ReadsLeaveStore ==
    [][C20_Case' =>
        /\ ~Invoked(Mutating)'
        /\ objects' = objects
        /\ sessions' = sessions
        /\ nextId' = nextId]_vars

\* The nested app lists the objects while an upload in progress holds a part.
C20_Witness ==
    /\ C20_Case
    /\ req.app = "nested"
    /\ IsList(req)
    /\ resp.status = 200
    /\ calls # <<>>
    /\ \E u \in UploadIds : sessions[u].open /\ sessions[u].parts # NoParts

====
